---- MODULE Spec2Model ----
(***************************************************************************)
(* Call-graph derivation of Code-Map-Viewer (src/main.py).                 *)
(*                                                                         *)
(* The Analyzer (an ast.NodeVisitor) walks a syntax tree depth first; the  *)
(* script then filters the recorded calls against the collected function   *)
(* names and builds the graph (class/global membership edges, call edges). *)
(*                                                                         *)
(* Strings are sequences of atoms: an identifier is one atom, "." is an    *)
(* atom, so the qualified name "A.m" is <<"A", ".", "m">> and the free     *)
(* function "m" is <<"m">>.  str.endswith, == and split(".") act on these  *)
(* sequences.                                                              *)
(*                                                                         *)
(* The tree is consumed node by node in depth-first order: `stack` is the  *)
(* chain of nodes whose visit is in progress (the Python call stack of the *)
(* visitor), and each Visit... action takes the next child of the node on  *)
(* top.  `decls`, `exprs`, `call_src` and `edge_src` are history variables *)
(* describing the tree that was walked; the program does not read them.    *)
(***************************************************************************)
EXTENDS Integers, Sequences, FiniteSets, TLC

MaxNodes == 4

ClassIds == {"A", "B"}
FuncIds == {"f", "g"}
NameIds == {"f", "g"}
MemberIds == {"g"}

NoFunction == << >>
NoClass == ""

(* the shape of a call's func and the identifier it ends in: f(), x.g(),    *)
(* super().g(), and any other func (the result of a call, a subscript)     *)
CallTargets ==
    ({"Name"} \X NameIds) \cup ({"Attribute", "Super"} \X MemberIds)
        \cup {<<"Other", "">>}

VARIABLES
    pc,                   \* "walk" (l.82), "filter" (l.92-99), "render" (l.142-179), "done"
    stack,                \* nodes whose visit is in progress, the module first
    nodes,                \* nodes taken from the tree so far; a node's lineno
    class_stack,          \* Analyzer.class_stack (l.28)
    function_names,       \* Analyzer.function_names (l.29)
    class_func_map,       \* Analyzer.class_func_map (l.30), a dict in insertion order
    calls,                \* Analyzer.calls (l.31): <<caller, callee token>>
    super_calls,          \* Analyzer.super_calls (l.32)
    function_line_no,     \* Analyzer.function_line_no (l.33)
    current_function,     \* Analyzer.current_function (l.53, l.55)
    has_current_function, \* hasattr(self, "current_function") (l.58)
    filtered_calls,       \* filtered_calls (l.92)
    global_node,          \* the node global::Global was added (l.152-158)
    parent_of,            \* parent_cls of every function node (l.161-172)
    call_edges,           \* the call edges and their style (l.175-179)
    decls,                \* history: the FunctionDef nodes walked
    exprs,                \* history: the Call nodes of the tree
    call_src,             \* history: the Call node of each entry of calls
    edge_src              \* history: the entry of calls of each filtered call

analyzer ==
    <<class_stack, function_names, class_func_map, calls, super_calls,
      function_line_no, current_function, has_current_function>>
graph == <<filtered_calls, global_node, parent_of, call_edges>>
history == <<decls, exprs, call_src, edge_src>>
vars == <<pc, stack, nodes, analyzer, graph, history>>

----------------------------------------------------------------------------
(* Helpers on sequences and strings *)

Range(s) == {s[i] : i \in DOMAIN s}

Last(s) == s[Len(s)]

Front(s) == SubSeq(s, 1, Len(s) - 1)

Str(id) == <<id>>

EndsWith(s, suffix) ==
    /\ Len(s) >= Len(suffix)
    /\ SubSeq(s, Len(s) - Len(suffix) + 1, Len(s)) = suffix

RECURSIVE SplitLast(_)
SplitLast(s) ==
    IF s = << >> THEN << >>
    ELSE IF Last(s) = "." THEN << >>
    ELSE Append(SplitLast(Front(s)), Last(s))

----------------------------------------------------------------------------
(* The walk position *)

Top == stack[Len(stack)]

Frame(kind, name, full_name, field, visited, decl) ==
    [kind |-> kind, name |-> name, full_name |-> full_name,
     field |-> field, visited |-> visited, decl |-> decl]

HoldsStatements(fr) ==
    \/ fr.kind = "Module"
    \/ fr.kind = "ClassDef"
    \/ fr.kind = "FunctionDef" /\ fr.field = "body"

BodyFrames(st) ==
    {i \in DOMAIN st : st[i].kind = "FunctionDef" /\ st[i].field = "body"}

EnclosingFunction(st) ==
    IF BodyFrames(st) = {} THEN NoFunction
    ELSE st[CHOOSE i \in BodyFrames(st) : \A j \in BodyFrames(st) : j <= i].full_name

EnclosingDecl(st) ==
    IF BodyFrames(st) = {} THEN 0
    ELSE st[CHOOSE i \in BodyFrames(st) : \A j \in BodyFrames(st) : j <= i].decl

ClassFrames(st) == {i \in DOMAIN st : st[i].kind = "ClassDef"}

EnclosingClass(st) ==
    IF ClassFrames(st) = {} THEN NoClass
    ELSE st[CHOOSE i \in ClassFrames(st) : \A j \in ClassFrames(st) : j <= i].name

OpenDecls(st) == {st[i].decl : i \in {j \in DOMAIN st : st[j].kind = "FunctionDef"}}

----------------------------------------------------------------------------
(* Analyzer *)

ResetClass(map, class_name) ==
    IF \E i \in DOMAIN map : map[i].cls = class_name
    THEN [i \in DOMAIN map |->
            IF map[i].cls = class_name
            THEN [map[i] EXCEPT !.funcs = << >>] ELSE map[i]]
    ELSE Append(map, [cls |-> class_name, funcs |-> << >>])

AddMember(map, class_name, full_name) ==
    [i \in DOMAIN map |->
        IF map[i].cls = class_name
        THEN [map[i] EXCEPT !.funcs = Append(@, full_name)] ELSE map[i]]

QualifiedName(cstack, name) ==
    IF cstack # << >> THEN <<Last(cstack), ".", name>> ELSE Str(name)

(* variant of RecordName without the membership test of l.49 *)
RecordNameAlways(names, full_name) == Append(names, full_name)

RecordName(names, full_name) ==
    IF full_name \notin Range(names) THEN Append(names, full_name) ELSE names

RecordLine(names, lines, full_name, lineno) ==
    IF full_name \notin Range(names) THEN (full_name :> lineno) @@ lines ELSE lines

(* variant of EnterFunction that stores node.name *)
EnterFunctionUnqualified(full_name, name) == Str(name)

EnterFunction(full_name, name) == full_name

visit_ClassDef(class_name) ==
    /\ pc = "walk"
    /\ nodes < MaxNodes
    /\ HoldsStatements(Top)
    /\ class_stack' = Append(class_stack, class_name)
    /\ class_func_map' = ResetClass(class_func_map, class_name)
    /\ stack' = Append(stack, Frame("ClassDef", class_name, NoFunction, "body", TRUE, 0))
    /\ nodes' = nodes + 1
    /\ UNCHANGED <<pc, function_names, calls, super_calls, function_line_no,
                   current_function, has_current_function, graph, history>>

return_ClassDef ==
    /\ pc = "walk"
    /\ Top.kind = "ClassDef"
    /\ class_stack' = Front(class_stack)
    /\ stack' = Front(stack)
    /\ UNCHANGED <<pc, nodes, function_names, class_func_map, calls, super_calls,
                   function_line_no, current_function, has_current_function,
                   graph, history>>

visit_FunctionDef(name) ==
    /\ pc = "walk"
    /\ nodes < MaxNodes
    /\ HoldsStatements(Top)
    /\ LET full_name == QualifiedName(class_stack, name)
           lineno == nodes + 1
       IN  /\ class_func_map' =
                 IF class_stack # << >>
                 THEN AddMember(class_func_map, Last(class_stack), full_name)
                 ELSE class_func_map
           /\ function_names' = RecordName(function_names, full_name)
           /\ function_line_no' =
                 RecordLine(function_names, function_line_no, full_name, lineno)
           /\ current_function' = EnterFunction(full_name, name)
           /\ has_current_function' = TRUE
           /\ stack' = Append(stack, Frame("FunctionDef", name, full_name, "body",
                                           TRUE, Len(decls) + 1))
           /\ decls' = Append(
                 [i \in DOMAIN decls |->
                     IF i \in OpenDecls(stack)
                     THEN [decls[i] EXCEPT !.has_nested = TRUE] ELSE decls[i]],
                 [full_name |-> full_name, owner |-> EnclosingClass(stack),
                  line |-> lineno, has_nested |-> FALSE])
    /\ nodes' = nodes + 1
    /\ UNCHANGED <<pc, class_stack, calls, super_calls, graph,
                   exprs, call_src, edge_src>>

(* generic_visit of a FunctionDef: after the statements of body come the   *)
(* expressions of decorator_list.  (The default values in args are walked  *)
(* before body with the slot as the first statement of body finds it; they *)
(* are not modelled as a field of their own.)                              *)
next_field ==
    /\ pc = "walk"
    /\ Top.kind = "FunctionDef"
    /\ Top.field = "body"
    /\ stack' = [stack EXCEPT ![Len(stack)].field = "decorator_list"]
    /\ UNCHANGED <<pc, nodes, analyzer, graph, history>>

return_FunctionDef ==
    /\ pc = "walk"
    /\ Top.kind = "FunctionDef"
    /\ Top.field = "decorator_list"
    /\ current_function' = NoFunction
    /\ stack' = Front(stack)
    /\ UNCHANGED <<pc, nodes, class_stack, function_names, class_func_map, calls,
                   super_calls, function_line_no, has_current_function,
                   graph, history>>

Expr(shape, id) ==
    [shape |-> shape, token |-> Str(id), encl |-> EnclosingFunction(stack),
     encl_decl |-> EnclosingDecl(stack)]

visit_Call(shape, id) ==
    /\ pc = "walk"
    /\ nodes < MaxNodes
    /\ Top.visited
    /\ nodes' = nodes + 1
    /\ exprs' = Append(exprs, Expr(shape, id))
    /\ \/ /\ ~has_current_function \/ current_function = NoFunction
          /\ stack' = Append(stack, Frame("Call", id, NoFunction, "func", FALSE, 0))
          /\ UNCHANGED <<calls, super_calls, call_src>>
       \/ /\ has_current_function /\ current_function # NoFunction
          /\ shape = "Name"
          /\ calls' = Append(calls, <<current_function, Str(id)>>)
          /\ call_src' = Append(call_src, Len(exprs) + 1)
          /\ stack' = Append(stack, Frame("Call", id, NoFunction, "func", TRUE, 0))
          /\ UNCHANGED super_calls
       \/ /\ has_current_function /\ current_function # NoFunction
          /\ shape = "Super"
          /\ calls' = Append(calls, <<current_function, Str(id)>>)
          /\ super_calls' = Append(super_calls, <<current_function, Str(id)>>)
          /\ call_src' = Append(call_src, Len(exprs) + 1)
          /\ stack' = Append(stack, Frame("Call", id, NoFunction, "func", FALSE, 0))
       \/ /\ has_current_function /\ current_function # NoFunction
          /\ shape = "Attribute"
          /\ calls' = Append(calls, <<current_function, Str(id)>>)
          /\ call_src' = Append(call_src, Len(exprs) + 1)
          /\ stack' = Append(stack, Frame("Call", id, NoFunction, "func", TRUE, 0))
          /\ UNCHANGED super_calls
       \/ /\ has_current_function /\ current_function # NoFunction
          /\ shape = "Other"
          /\ stack' = Append(stack, Frame("Call", id, NoFunction, "func", FALSE, 0))
          /\ UNCHANGED <<calls, super_calls, call_src>>
    /\ UNCHANGED <<pc, class_stack, function_names, class_func_map,
                   function_line_no, current_function, has_current_function,
                   graph, decls, edge_src>>

(* a call expression below a Call whose visit returned before generic_visit: *)
(* no visitor method runs for it or for anything below it                    *)
unvisited_Call(shape, id) ==
    /\ pc = "walk"
    /\ nodes < MaxNodes
    /\ ~Top.visited
    /\ nodes' = nodes + 1
    /\ exprs' = Append(exprs, Expr(shape, id))
    /\ UNCHANGED <<pc, stack, analyzer, graph, decls, call_src, edge_src>>

return_Call ==
    /\ pc = "walk"
    /\ Top.kind = "Call"
    /\ stack' = Front(stack)
    /\ UNCHANGED <<pc, nodes, analyzer, graph, history>>

return_Module ==
    /\ pc = "walk"
    /\ Top.kind = "Module"
    /\ pc' = "filter"
    /\ UNCHANGED <<stack, nodes, analyzer, graph, history>>

----------------------------------------------------------------------------
(* Filter out self-calls and calls to non-existing functions *)

Matches(fn, callee) == EndsWith(fn, <<".">> \o callee) \/ fn = callee

MatchingIndexes(names, callee) ==
    {i \in DOMAIN names : Matches(names[i], callee)}

(* variant of Resolve without the break of l.99: the last match wins *)
ResolveLast(names, callee) ==
    IF MatchingIndexes(names, callee) = {} THEN << >>
    ELSE <<names[CHOOSE i \in MatchingIndexes(names, callee) :
                    \A j \in MatchingIndexes(names, callee) : j <= i]>>

(* variant of Resolve that keeps the raw token when nothing matches *)
ResolveOrKeep(names, callee) ==
    IF MatchingIndexes(names, callee) = {} THEN <<callee>>
    ELSE <<names[CHOOSE i \in MatchingIndexes(names, callee) :
                    \A j \in MatchingIndexes(names, callee) : i <= j]>>

RECURSIVE FirstMatch(_, _, _)
FirstMatch(names, callee, i) ==
    IF i > Len(names) THEN << >>
    ELSE IF Matches(names[i], callee) THEN <<names[i]>>
    ELSE FirstMatch(names, callee, i + 1)

Resolve(names, callee) == FirstMatch(names, callee, 1)

RECURSIVE FilterCalls(_, _, _)
FilterCalls(cs, names, k) ==
    IF k > Len(cs) THEN << >>
    ELSE LET caller == cs[k][1]
             callee == cs[k][2]
         IN  IF caller = callee THEN FilterCalls(cs, names, k + 1)
             ELSE [i \in DOMAIN Resolve(names, callee) |->
                      <<caller, Resolve(names, callee)[i]>>]
                  \o FilterCalls(cs, names, k + 1)

RECURSIVE FilterSrc(_, _, _)
FilterSrc(cs, names, k) ==
    IF k > Len(cs) THEN << >>
    ELSE LET caller == cs[k][1]
             callee == cs[k][2]
         IN  IF caller = callee THEN FilterSrc(cs, names, k + 1)
             ELSE [i \in DOMAIN Resolve(names, callee) |-> k]
                  \o FilterSrc(cs, names, k + 1)

filter_calls ==
    /\ pc = "filter"
    /\ filtered_calls' = FilterCalls(calls, function_names, 1)
    /\ edge_src' = FilterSrc(calls, function_names, 1)
    /\ pc' = "render"
    /\ UNCHANGED <<stack, nodes, analyzer, global_node, parent_of, call_edges,
                   decls, exprs, call_src>>

----------------------------------------------------------------------------
(* Build the graph: class/global membership, call edges *)

AllMembers(map) == UNION {Range(map[i].funcs) : i \in DOMAIN map}

HasGlobal(names, map) == \E fn \in Range(names) : fn \notin AllMembers(map)

RECURSIVE ParentCls(_, _, _)
ParentCls(map, fn, i) ==
    IF i > Len(map) THEN NoClass
    ELSE IF fn \in Range(map[i].funcs) THEN map[i].cls
    ELSE ParentCls(map, fn, i + 1)

IsSuperEdge(edge, supers) == <<edge[1], SplitLast(edge[2])>> \in Range(supers)

build_graph ==
    /\ pc = "render"
    /\ global_node' = HasGlobal(function_names, class_func_map)
    /\ parent_of' = [fn \in Range(function_names) |-> ParentCls(class_func_map, fn, 1)]
    /\ call_edges' = [i \in DOMAIN filtered_calls |->
                         [caller |-> filtered_calls[i][1],
                          callee |-> filtered_calls[i][2],
                          dashes |-> IsSuperEdge(filtered_calls[i], super_calls)]]
    /\ pc' = "done"
    /\ UNCHANGED <<stack, nodes, analyzer, filtered_calls, history>>

----------------------------------------------------------------------------

Init ==
    /\ pc = "walk"
    /\ stack = <<Frame("Module", "", NoFunction, "body", TRUE, 0)>>
    /\ nodes = 0
    /\ class_stack = << >>
    /\ function_names = << >>
    /\ class_func_map = << >>
    /\ calls = << >>
    /\ super_calls = << >>
    /\ function_line_no = << >>
    /\ current_function = NoFunction
    /\ has_current_function = FALSE
    /\ filtered_calls = << >>
    /\ global_node = FALSE
    /\ parent_of = << >>
    /\ call_edges = << >>
    /\ decls = << >>
    /\ exprs = << >>
    /\ call_src = << >>
    /\ edge_src = << >>

Next ==
    \/ \E c \in ClassIds : visit_ClassDef(c)
    \/ return_ClassDef
    \/ \E f \in FuncIds : visit_FunctionDef(f)
    \/ next_field
    \/ return_FunctionDef
    \/ \E t \in CallTargets : visit_Call(t[1], t[2])
    \/ \E t \in CallTargets : unvisited_Call(t[1], t[2])
    \/ return_Call
    \/ return_Module
    \/ filter_calls
    \/ build_graph

Spec == Init /\ [][Next]_vars

----------------------------------------------------------------------------
(* Properties *)

Filtered == pc \in {"render", "done"}

Done == pc = "done"

(* the declaration names `token`: it is the free function `token` or a     *)
(* method `<class>.token`                                                  *)
Names(fn, token) == fn = token \/ EndsWith(fn, <<".">> \o token)

Candidates(token) == {j \in DOMAIN function_names : Names(function_names[j], token)}

ExprOfCall(k) == exprs[call_src[k]]

ExprOfEdge(i) == ExprOfCall(edge_src[i])

(* the call expression of edge i lies in the body of the edge's caller *)
InCallerBody(i) == ExprOfEdge(i).encl = filtered_calls[i][1]

(* C1: no emitted edge has its caller equal to its callee, also for a      *)
(* method C.m whose body calls m through a member access (self.m()).       *)
(* Stated for the edges of calls that lie in their caller's body.          *)
C1_NoSelfEdge ==
    Filtered =>
        \A i \in DOMAIN filtered_calls :
            InCallerBody(i) => filtered_calls[i][1] # filtered_calls[i][2]

(* C2: the callee of every emitted edge is in function_names, and a        *)
(* recorded call whose token names no declaration produces no edge         *)
C2_EdgesClosed ==
    Filtered =>
        /\ \A i \in DOMAIN filtered_calls :
              filtered_calls[i][2] \in Range(function_names)
        /\ \A k \in DOMAIN calls :
              Candidates(calls[k][2]) = {} => k \notin Range(edge_src)

C2_Witness ==
    /\ Done
    /\ \E i \in DOMAIN filtered_calls : InCallerBody(i)
    /\ \E k \in DOMAIN calls :
          /\ Candidates(calls[k][2]) = {}
          /\ ExprOfCall(k).encl = calls[k][1]
          /\ k \notin Range(edge_src)

(* C3: an edge is drawn as super-dispatch exactly when the call expression *)
(* it comes from had its target accessed through super().  Stated for the  *)
(* edges of calls that lie in their caller's body.                         *)
C3_SuperExact ==
    Done =>
        \A i \in DOMAIN call_edges :
            InCallerBody(i) =>
                (call_edges[i].dashes <=> (ExprOfEdge(i).shape = "Super"))

(* C4: a collected function belongs to class C in the graph exactly when   *)
(* it was declared with C as innermost enclosing class, and to the global  *)
(* bucket exactly when it was declared outside every class                 *)
C4_Ownership ==
    Done =>
        \A fn \in Range(function_names) :
            \A c \in ClassIds \cup {NoClass} :
                (parent_of[fn] = c) <=>
                    (\E d \in DOMAIN decls :
                        decls[d].full_name = fn /\ decls[d].owner = c)

(* C5: every recorded call whose caller differs from its token and whose   *)
(* token names a declaration yields an edge from that caller to the first  *)
(* declaration, in collection order, that the token names                  *)
C5_FirstDeclared ==
    Filtered =>
        /\ \A k \in DOMAIN calls :
              (calls[k][1] # calls[k][2] /\ Candidates(calls[k][2]) # {})
                  => \E i \in DOMAIN edge_src : edge_src[i] = k
        /\ \A i \in DOMAIN filtered_calls :
              LET k == edge_src[i]
              IN  /\ filtered_calls[i][1] = calls[k][1]
                  /\ \E j \in Candidates(calls[k][2]) :
                        /\ function_names[j] = filtered_calls[i][2]
                        /\ \A j2 \in Candidates(calls[k][2]) : j <= j2

C5_Witness ==
    /\ Done
    /\ \E i \in DOMAIN filtered_calls :
          /\ Cardinality(Candidates(calls[edge_src[i]][2])) >= 2
          /\ InCallerBody(i)
          /\ filtered_calls[i][1] # filtered_calls[i][2]

(* C6: a call expression outside every function body is never recorded    *)
C6_OutsideNotRecorded ==
    \A k \in DOMAIN calls : ExprOfCall(k).encl # NoFunction

(* C7: function_names has no duplicate and lists the qualified names in    *)
(* the order of their first declaration; each keeps the line of its first  *)
(* declaration                                                             *)
FirstDecls ==
    {d \in DOMAIN decls :
        \A e \in DOMAIN decls : e < d => decls[e].full_name # decls[d].full_name}

C7_FirstOccurrenceOrder ==
    /\ Len(function_names) = Cardinality(FirstDecls)
    /\ DOMAIN function_line_no = Range(function_names)
    /\ \A i \in DOMAIN function_names :
          \E d \in FirstDecls :
              /\ decls[d].full_name = function_names[i]
              /\ Cardinality({e \in FirstDecls : e < d}) = i - 1
              /\ function_line_no[function_names[i]] = decls[d].line

C7_Witness ==
    /\ Len(function_names) >= 2
    /\ \E d \in DOMAIN decls :
          /\ d \notin FirstDecls
          /\ decls[d].full_name = function_names[1]

(* C8: on return from a function definition nested in the body of f the    *)
(* current-function slot holds f again                                     *)
C8_SlotRestored ==
    [][(/\ pc = "walk"
        /\ Top.kind = "FunctionDef"
        /\ Len(stack') < Len(stack)
        /\ EnclosingFunction(stack') # NoFunction)
          => current_function' = EnclosingFunction(stack')]_vars

(* C9: in a function without nested function definition every call in the  *)
(* body with a bare-name or member-access target is recorded exactly once, *)
(* with that function as caller                                            *)
C9_EveryCallRecorded ==
    Done =>
        \A e \in DOMAIN exprs :
            (/\ exprs[e].encl_decl # 0
             /\ ~decls[exprs[e].encl_decl].has_nested
             /\ exprs[e].shape \in {"Name", "Attribute", "Super"})
            => /\ Cardinality({k \in DOMAIN calls : call_src[k] = e}) = 1
               /\ \A k \in DOMAIN calls :
                     call_src[k] = e => calls[k][1] = exprs[e].encl

(* C10: the caller of every recorded call, super call and emitted edge is  *)
(* in function_names                                                       *)
C10_CallersDeclared ==
    /\ \A k \in DOMAIN calls : calls[k][1] \in Range(function_names)
    /\ \A k \in DOMAIN super_calls : super_calls[k][1] \in Range(function_names)
    /\ \A i \in DOMAIN filtered_calls :
          filtered_calls[i][1] \in Range(function_names)

C10_Witness ==
    /\ Done
    /\ \E i \in DOMAIN filtered_calls :
          LET d == ExprOfEdge(i).encl_decl
          IN  /\ d # 0
              /\ d \notin FirstDecls
              /\ filtered_calls[i][1] = decls[d].full_name

====
